---- MODULE Spec2Model ----
(***************************************************************************)
(* State-machine model of sendgrid-campaigns: the campaign upsert workflow *)
(* (campaign_manager.py, api/*.py) run against the remote provider, and    *)
(* the .eml extraction orchestrator (eml_extractor.py).                    *)
(*                                                                         *)
(* Strings the code only compares are TLA+ strings.  Strings the code      *)
(* splits or prefix-matches (subjects, list names) are sequences of text   *)
(* chunks, the separator " - " being one chunk.  Python's None is NoneV.   *)
(***************************************************************************)
EXTENDS Naturals, Sequences, FiniteSets, TLC

VARIABLES campaigns, lists, groups, now, runs, faults, args, run,
          eml, blobs, outfile, ex, rcv, parsed

vars == <<campaigns, lists, groups, now, runs, faults, args, run, eml, blobs, outfile, ex,
          rcv, parsed>>
providerVars == <<campaigns, lists, groups, now, runs, faults, args, run>>
extractVars == <<eml, blobs, outfile, ex>>
parseVars == <<rcv, parsed>>

----------------------------------------------------------------------------
(* Bounds *)

\* CLI invocations of the campaign command in one behaviour.
MaxRuns == 2
\* Provider calls of one behaviour that do not answer normally.
MaxFaults == 1
\* Elements of the HTML body of an extracted message.
MaxElems == 2
\* Characters of a line of a receivers file.
MaxLineLen == 3

----------------------------------------------------------------------------
(* Values *)

NoneV == "<None>"
EmptyStr == ""
SEP == " - "
NoneSubject == <<NoneV>>

\* Python truthiness of an optional string argument.
Truthy(v) == v # NoneV /\ v # EmptyStr

\* The provider's verified senders, in the order senders.get returns them.
Senders == << [id |-> "s1", email |-> "v1@x"], [id |-> "s2", email |-> "v2@x"] >>

\* Subjects a caller passes (text chunks).
Subjects == { <<"a">>, <<"a", "b">> }

\* Outcomes of one provider call: a normal answer, a falsy response or empty
\* body, an exception raised by the client, and (where the code reads
\* status_code) a response whose status is not 200, 201 or 202.
OK == "ok"
EMPTY == "empty"
ERROR == "error"
STATUS == "status"

\* The provider calls one invocation can make, by place in the code.
ReadSites == {"status.get", "status.senders", "list.get", "list.senders",
              "sender.get", "groups.get", "lists.get", "final.get", "final.senders"}
WriteSites == {"groups.post", "lists.post", "campaign.write"}
CheckedSites == {"contacts.put", "schedule.put"}
CallSites == ReadSites \cup WriteSites \cup CheckedSites

FaultKinds(c) == IF c \in CheckedSites THEN {EMPTY, ERROR, STATUS} ELSE {EMPTY, ERROR}

AllOk == [c \in CallSites |-> OK]

----------------------------------------------------------------------------
(* Text helpers *)

\* str.startswith
startswith(s, p) == Len(p) <= Len(s) /\ SubSeq(s, 1, Len(p)) = p

\* str.split(' - ')[0]
RECURSIVE split_first(_)
split_first(s) ==
  IF s = <<>> \/ Head(s) = SEP THEN <<>>
  ELSE <<Head(s)>> \o split_first(Tail(s))

\* datetime.now().strftime('%Y%m%d_%H%M%S')
strftime(t) == "t" \o ToString(t)

\* f"List for {args.subject} - {timestamp}"
ListName(subject, t) == <<"List for ">> \o subject \o <<SEP, strftime(t)>>

\* Provider-assigned identifiers.
NewId(kind, n) == kind \o ToString(n + 1)

\* The world one invocation works on: the remote state and the calls made.
World(cs, ls, gs) ==
  [campaigns |-> cs, lists |-> ls, groups |-> gs, calls |-> <<>>, sites |-> {}]

\* A provider call: the endpoint called and the place in the code calling it.
Call(w, site, endpoint) ==
  [w EXCEPT !.calls = Append(@, endpoint), !.sites = @ \cup {site}]

----------------------------------------------------------------------------
(* api/sender.py, api/campaign.py, api/scheduling.py *)

\* What get_campaign_details / get_campaign_list report of one campaign;
\* some = FALSE stands for Python's None.
NoInfo == [some |-> FALSE, campaign_id |-> NoneV, subject |-> NoneSubject,
           scheduled_at |-> NoneV, from |-> NoneV, status |-> NoneV,
           send_to |-> NoneV]

\* senders[sender_id] as built from the senders.get answer.
SenderEmailOf(id) ==
  IF \E i \in DOMAIN Senders : Senders[i].id = id
  THEN Senders[CHOOSE i \in DOMAIN Senders : Senders[i].id = id].email
  ELSE "Unknown"

InfoOf(c, senders_ok) ==
  [some |-> TRUE, campaign_id |-> c.id, subject |-> c.name,
   scheduled_at |-> c.send_at,
   from |-> IF senders_ok THEN SenderEmailOf(c.sender_id) ELSE "Unknown",
   status |-> c.status, send_to |-> c.list_id]

\* The exception swallowed, the outcome of stats.get changes no result here.
get_detailed_stats(w) == [w EXCEPT !.calls = Append(@, "stats.get")]

get_campaign_details(w, campaign_id, site, o) ==
  LET oGet == o[site \o ".get"]
      oSenders == o[site \o ".senders"]
      w1 == Call(w, site \o ".get", "singlesends.get_one")
      found == {i \in DOMAIN w.campaigns : w.campaigns[i].id = campaign_id}
  IN IF oGet # OK \/ found = {}
     THEN [w |-> w1, val |-> NoInfo]
     ELSE LET c == w.campaigns[CHOOSE i \in found : TRUE]
              w2 == Call(w1, site \o ".senders", "senders.get")
          IN IF oSenders = ERROR
             THEN [w |-> w2, val |-> NoInfo]
             ELSE [w |-> get_detailed_stats(w2), val |-> InfoOf(c, oSenders = OK)]

RECURSIVE StatsCalls(_, _)
StatsCalls(w, n) == IF n = 0 THEN w ELSE StatsCalls(get_detailed_stats(w), n - 1)

get_campaign_list(w, o) ==
  LET oGet == o["list.get"]
      oSenders == o["list.senders"]
      w1 == Call(w, "list.get", "singlesends.get")
  IN IF oGet # OK \/ w.campaigns = <<>>
     THEN [w |-> w1, val |-> <<>>]
     ELSE LET w2 == Call(w1, "list.senders", "senders.get")
          IN IF oSenders = ERROR
             THEN [w |-> w2, val |-> <<>>]
             ELSE [w |-> StatsCalls(w2, Len(w.campaigns)),
                   val |-> [i \in DOMAIN w.campaigns |->
                              [InfoOf(w.campaigns[i], oSenders = OK)
                                 EXCEPT !.send_to = NoneV]]]

check_existing_campaign(w, subject, o) ==
  LET l == get_campaign_list(w, o)
      hits == {i \in DOMAIN l.val : l.val[i].subject = subject}
  IN [w |-> l.w,
      val |-> IF hits = {} THEN NoInfo
              ELSE l.val[CHOOSE i \in hits : \A j \in hits : i <= j]]

get_sender_id(w, sender_email, o) ==
  IF ~Truthy(sender_email)
  THEN [w |-> w, val |-> NoneV, err |-> ""]
  ELSE LET oGet == o["sender.get"]
           w1 == Call(w, "sender.get", "senders.get")
           hits == {i \in DOMAIN Senders : Senders[i].email = sender_email}
       IN IF oGet = EMPTY THEN [w |-> w1, val |-> NoneV, err |-> "EmptyResponse"]
          ELSE IF oGet = ERROR THEN [w |-> w1, val |-> NoneV, err |-> "ProviderError"]
          ELSE IF hits = {} THEN [w |-> w1, val |-> NoneV, err |-> "SenderNotFound"]
          ELSE [w |-> w1, err |-> "",
                val |-> Senders[CHOOSE i \in hits : \A j \in hits : i <= j].id]

get_suppression_groups(w, o) ==
  [w |-> Call(w, "groups.get", "asm.groups.get"),
   val |-> IF o["groups.get"] = OK THEN w.groups ELSE <<>>]

get_default_suppression_group(w, o) ==
  LET g == get_suppression_groups(w, o)
      oPost == o["groups.post"]
      w1 == Call(g.w, "groups.post", "asm.groups.post")
      id == NewId("g", Len(w.groups))
  IN IF g.val # <<>> THEN [w |-> g.w, val |-> g.val[1], err |-> ""]
     ELSE IF oPost = EMPTY THEN [w |-> w1, val |-> NoneV, err |-> "EmptyResponse"]
     ELSE IF oPost = ERROR THEN [w |-> w1, val |-> NoneV, err |-> "ProviderError"]
     ELSE [w |-> [w1 EXCEPT !.groups = Append(@, id)], val |-> id, err |-> ""]

\* Lines 29-32 if the names were not filtered by the prefix.
get_existing_lists_Unfiltered(w, name_prefix, o) ==
  [w |-> Call(w, "lists.get", "lists.get"),
   val |-> IF o["lists.get"] = OK THEN w.lists ELSE <<>>]

get_existing_lists(w, name_prefix, o) ==
  [w |-> Call(w, "lists.get", "lists.get"),
   val |-> IF o["lists.get"] = OK
           THEN SelectSeq(w.lists, LAMBDA l : startswith(l.name, name_prefix))
           ELSE <<>>]

\* contacts.put of `contacts` into list `id`.
PutContacts(ls, id, contacts) ==
  [i \in DOMAIN ls |->
     IF ls[i].id = id THEN [ls[i] EXCEPT !.contacts = @ \cup contacts] ELSE ls[i]]

create_contacts_list(w, list_name, contacts, o) ==
  LET base_name == split_first(list_name)
      oPost == o["lists.post"]
      oPut == o["contacts.put"]
      e == get_existing_lists(w, base_name, o)
      reuse == e.val # <<>>
      w1 == Call(e.w, "lists.post", "lists.post")
      new_id == NewId("l", Len(w.lists))
      w2 == [w1 EXCEPT !.lists =
                Append(@, [id |-> new_id, name |-> list_name, contacts |-> {}])]
      list_id == IF reuse THEN e.val[1].id ELSE new_id
      w3 == Call(IF reuse THEN e.w ELSE w2, "contacts.put", "contacts.put")
  IN IF ~reuse /\ oPost # OK THEN [w |-> w1, val |-> NoneV]
     ELSE IF oPut # OK THEN [w |-> w3, val |-> NoneV]
     ELSE [w |-> [w3 EXCEPT !.lists = PutContacts(@, list_id, contacts)],
           val |-> list_id]

\* What schedule.put does to the remote campaign when the provider accepts.
Scheduled(cs, id, t) ==
  [i \in DOMAIN cs |->
     IF cs[i].id = id THEN [cs[i] EXCEPT !.status = "scheduled", !.send_at = t]
     ELSE cs[i]]

schedule_campaign(w, campaign_id, schedule_time, o) ==
  LET w1 == Call(w, "schedule.put", "schedule.put")
  IN IF o["schedule.put"] = OK
     THEN [w |-> [w1 EXCEPT !.campaigns = Scheduled(@, campaign_id, schedule_time)],
           val |-> TRUE]
     ELSE [w |-> w1, val |-> FALSE]

----------------------------------------------------------------------------
(* utils/date_utils.py, utils/file_utils.py as the workflow uses them *)

\* Files on disk: the receivers file and its addresses, the HTML body file.
Files == {"rcv.txt", "body.html"}
ReceiversIn(path) == IF path = "rcv.txt" THEN {"r1@x"} ELSE {}

\* A receivers file as parse_receivers_file reads it: its path and its lines,
\* a line being a sequence of characters.
NoRcv == [path |-> EmptyStr, lines |-> <<>>]
NoParsed == [done |-> FALSE, receivers |-> <<>>]

\* c in s
Contains(s, c) == \E i \in DOMAIN s : s[i] = c

\* str.split(c): the pieces of s between the occurrences of c.
RECURSIVE Split(_, _)
Split(s, c) ==
  IF ~Contains(s, c) THEN <<s>>
  ELSE LET i == CHOOSE k \in DOMAIN s : s[k] = c /\ \A j \in 1..(k - 1) : s[j] # c
       IN <<SubSeq(s, 1, i - 1)>> \o Split(SubSeq(s, i + 1, Len(s)), c)

\* str.strip() if it removed nothing.
strip_Nothing(s) == s

\* str.strip()
RECURSIVE strip(_)
strip(s) ==
  IF s = <<>> THEN s
  ELSE IF Head(s) = " " THEN strip(Tail(s))
  ELSE IF s[Len(s)] = " " THEN strip(SubSeq(s, 1, Len(s) - 1))
  ELSE s

\* Lines 10-13 for the first n lines of the file.
RECURSIVE ParsedLines(_, _)
ParsedLines(lines, n) ==
  IF n = 0 THEN <<>>
  ELSE LET line == lines[n]
           prev == ParsedLines(lines, n - 1)
       IN IF Contains(line, "<") /\ Contains(line, ">")
          THEN Append(prev, strip(Split(Split(line, "<")[2], ">")[1]))
          ELSE prev

parse_receivers_file(file) ==
  IF ~Truthy(file.path) THEN <<>> ELSE ParsedLines(file.lines, Len(file.lines))

\* datetime.strptime(time_str, "%Y-%m-%d %H:%M:%S") accepts, and what
\* strftime("%Y-%m-%dT%H:%M:%SZ") then prints; anything else raises.
ValidTimes == {"2024-03-15 14:30:00"}
parse_schedule_time(time_str) ==
  IF time_str = "2024-03-15 14:30:00" THEN "2024-03-15T14:30:00Z" ELSE NoneV

----------------------------------------------------------------------------
(* campaign_manager.py *)

NoBody == [name |-> NoneSubject, subject |-> NoneSubject, sender_id |-> NoneV,
           suppression_group_id |-> NoneV, list_id |-> NoneV]

\* The outcome of one invocation.
\* shape: the branch of process_campaign_request taken; error: "" or the
\* failure raised; fetched: the status read by the draft check; info: the
\* campaign reported (the conflicting one, the one fetched, or the final
\* details a create or update shows); body: the
\* request body of the campaign write; sched: what schedule_campaign
\* returned; ret_kind, ret_id: what the invocation returns; calls: the
\* provider endpoints called, in order.
Outcome(w, shape, error, fetched, info, body, sched, ret_kind, ret_id) ==
  [w |-> w,
   r |-> [shape |-> shape, error |-> error, fetched |-> fetched, info |-> info,
          body |-> body, sched |-> sched, ret_kind |-> ret_kind,
          ret_id |-> ret_id, calls |-> w.calls]]

NewCampaign(id, body) ==
  [id |-> id, name |-> body.name, subject |-> body.subject, status |-> "draft",
   sender_id |-> body.sender_id, group_id |-> body.suppression_group_id,
   list_id |-> body.list_id, send_at |-> NoneV]

Patched(cs, id, body) ==
  [i \in DOMAIN cs |->
     IF cs[i].id = id
     THEN [cs[i] EXCEPT !.name = body.name, !.subject = body.subject,
                        !.sender_id = body.sender_id,
                        !.group_id = body.suppression_group_id,
                        !.list_id = body.list_id]
     ELSE cs[i]]

Exists(cs, id) == \E i \in DOMAIN cs : cs[i].id = id

\* singlesends._(campaign_id).patch(request_body=campaign_body), lines 92-96
PatchCampaign(w, campaign_id, body, o) ==
  LET oWrite == o["campaign.write"]
      w1 == Call(w, "campaign.write", "singlesends.patch")
  IN IF oWrite = ERROR \/ ~Exists(w.campaigns, campaign_id)
     THEN [w |-> w1, val |-> NoneV, err |-> "ProviderError"]
     ELSE IF oWrite = EMPTY THEN [w |-> w1, val |-> campaign_id, err |-> ""]
     ELSE [w |-> [w1 EXCEPT !.campaigns = Patched(@, campaign_id, body)],
           val |-> campaign_id, err |-> ""]

\* singlesends.post(request_body=campaign_body), lines 98-107
PostCampaign(w, body, o) ==
  LET oWrite == o["campaign.write"]
      w1 == Call(w, "campaign.write", "singlesends.post")
      id == NewId("c", Len(w.campaigns))
  IN IF oWrite = ERROR THEN [w |-> w1, val |-> NoneV, err |-> "ProviderError"]
     ELSE IF oWrite = EMPTY THEN [w |-> w1, val |-> NoneV, err |-> "EmptyResponse"]
     ELSE [w |-> [w1 EXCEPT !.campaigns = Append(@, NewCampaign(id, body))],
           val |-> id, err |-> ""]

\* Lines 109-118 if a failed schedule call were raised instead of warned about.
ScheduleAndReport_Raising(w, shape, fetched, body, campaign_id, schedule_time, o) ==
  LET sc == schedule_campaign(w, campaign_id, schedule_time, o)
      fin == get_campaign_details(sc.w, campaign_id, "final", o)
  IN IF sc.val
     THEN Outcome(fin.w, shape, "", fetched, fin.val, body, sc.val, "id", campaign_id)
     ELSE Outcome(sc.w, shape, "ScheduleFailed", fetched, NoInfo, body, FALSE, "raise", NoneV)

\* Lines 109-118 if the final details were not fetched.
ScheduleAndReport_Unreported(w, shape, fetched, body, campaign_id, schedule_time, o) ==
  LET sc == schedule_campaign(w, campaign_id, schedule_time, o)
  IN Outcome(sc.w, shape, "", fetched, NoInfo, body, sc.val, "id", campaign_id)

\* Lines 109-118: schedule, warn on failure, show the final details, return
\* the campaign ID.
ScheduleAndReport(w, shape, fetched, body, campaign_id, schedule_time, o) ==
  LET sc == schedule_campaign(w, campaign_id, schedule_time, o)
      fin == get_campaign_details(sc.w, campaign_id, "final", o)
  IN Outcome(fin.w, shape, "", fetched, fin.val, body, sc.val, "id", campaign_id)

\* Lines 15-118 if the group and the list (lines 52-59) were obtained before
\* the sender and the schedule time are resolved (lines 48-49).
create_or_update_campaign_WritesFirst(w0, a, o, t) ==
  LET update == Truthy(a.campaign_id)
      shape == IF update THEN "update" ELSE "create"
      d == get_campaign_details(w0, a.campaign_id, "status", o)
      fetched == IF update /\ d.val.some THEN d.val.status ELSE NoneV
      w1 == IF update THEN d.w ELSE w0
      e == check_existing_campaign(w1, a.subject, o)
      w2 == IF update THEN w1 ELSE e.w
      receivers == ReceiversIn(a.receivers_file_path)
      g == get_default_suppression_group(w2, o)
      list_name == ListName(a.subject, t)
      l == create_contacts_list(g.w, list_name, receivers, o)
      s == get_sender_id(l.w, a.sender, o)
      schedule_time == parse_schedule_time(a.scheduled_at)
      body == [name |-> a.subject, subject |-> a.subject, sender_id |-> s.val,
               suppression_group_id |-> g.val, list_id |-> l.val]
      wr == IF update THEN PatchCampaign(s.w, a.campaign_id, body, o)
            ELSE PostCampaign(s.w, body, o)
      Fail(w, error, b) == Outcome(w, shape, error, fetched, NoInfo, b, FALSE, "raise", NoneV)
  IN IF update /\ d.val.some /\ d.val.status # "draft"
       THEN Fail(w1, "InvalidState", NoBody)
     ELSE IF ~update /\ e.val.some
       THEN Outcome(w2, shape, "Conflict", fetched, e.val, NoBody, FALSE, "raise", NoneV)
     ELSE IF Truthy(a.receivers_file_path) /\ a.receivers_file_path \notin Files
       THEN Fail(w2, "FileNotFound", NoBody)
     ELSE IF a.html_body_file_path \notin Files
       THEN Fail(w2, "FileNotFound", NoBody)
     ELSE IF g.err # "" THEN Fail(g.w, g.err, NoBody)
     ELSE IF l.val = NoneV THEN Fail(l.w, "ListFailed", NoBody)
     ELSE IF s.err # "" THEN Fail(s.w, s.err, NoBody)
     ELSE IF schedule_time = NoneV THEN Fail(s.w, "BadScheduleTime", NoBody)
     ELSE IF wr.err # "" THEN Fail(wr.w, wr.err, body)
     ELSE ScheduleAndReport(wr.w, shape, fetched, body, wr.val, schedule_time, o)

create_or_update_campaign(w0, a, o, t) ==
  LET update == Truthy(a.campaign_id)
      shape == IF update THEN "update" ELSE "create"
      \* lines 15-22
      d == get_campaign_details(w0, a.campaign_id, "status", o)
      fetched == IF update /\ d.val.some THEN d.val.status ELSE NoneV
      w1 == IF update THEN d.w ELSE w0
      \* lines 25-37
      e == check_existing_campaign(w1, a.subject, o)
      w2 == IF update THEN w1 ELSE e.w
      \* lines 40-41
      receivers == ReceiversIn(a.receivers_file_path)
      \* line 48
      s == get_sender_id(w2, a.sender, o)
      \* line 49
      schedule_time == parse_schedule_time(a.scheduled_at)
      \* line 52
      g == get_default_suppression_group(s.w, o)
      \* lines 55-59
      list_name == ListName(a.subject, t)
      l == create_contacts_list(g.w, list_name, receivers, o)
      \* lines 62-84
      body == [name |-> a.subject, subject |-> a.subject, sender_id |-> s.val,
               suppression_group_id |-> g.val, list_id |-> l.val]
      \* lines 92-107
      wr == IF update THEN PatchCampaign(l.w, a.campaign_id, body, o)
            ELSE PostCampaign(l.w, body, o)
      Fail(w, error, b) == Outcome(w, shape, error, fetched, NoInfo, b, FALSE, "raise", NoneV)
  IN IF update /\ d.val.some /\ d.val.status # "draft"
       THEN Fail(w1, "InvalidState", NoBody)
     ELSE IF ~update /\ e.val.some
       THEN Outcome(w2, shape, "Conflict", fetched, e.val, NoBody, FALSE, "raise", NoneV)
     ELSE IF Truthy(a.receivers_file_path) /\ a.receivers_file_path \notin Files
       THEN Fail(w2, "FileNotFound", NoBody)
     ELSE IF a.html_body_file_path \notin Files
       THEN Fail(w2, "FileNotFound", NoBody)
     ELSE IF s.err # "" THEN Fail(s.w, s.err, NoBody)
     ELSE IF schedule_time = NoneV THEN Fail(s.w, "BadScheduleTime", NoBody)
     ELSE IF g.err # "" THEN Fail(g.w, g.err, NoBody)
     ELSE IF l.val = NoneV THEN Fail(l.w, "ListFailed", NoBody)
     ELSE IF wr.err # "" THEN Fail(wr.w, wr.err, body)
     ELSE ScheduleAndReport(wr.w, shape, fetched, body, wr.val, schedule_time, o)

\* The argument names given (not None), lines 140-144.
provided_args(a) ==
  {f \in {"campaign_id", "sender", "html_body_file_path", "scheduled_at",
          "receivers_file_path"} : a[f] # NoneV}
    \cup (IF a.subject # NoneSubject THEN {"subject"} ELSE {})

required_fields == {"subject", "sender", "receivers_file_path",
                    "html_body_file_path", "scheduled_at"}

process_campaign_request(w0, a, o, t) ==
  LET given == provided_args(a)
      cl == get_campaign_list(w0, o)
      d == get_campaign_details(w0, a.campaign_id, "status", o)
  IN IF given = {}
       THEN Outcome(cl.w, "list", "", NoneV, NoInfo, NoBody, FALSE,
                    IF cl.val = <<>> THEN "text" ELSE "list", NoneV)
     ELSE IF given = {"campaign_id"}
       THEN Outcome(d.w, "fetch", "", NoneV, d.val, NoBody, FALSE,
                    IF d.val.some THEN "details" ELSE "text", NoneV)
     ELSE IF required_fields \subseteq given
       THEN create_or_update_campaign(w0, a, o, t)
     ELSE Outcome(w0, "usage", "Usage", NoneV, NoInfo, NoBody, FALSE, "raise", NoneV)

----------------------------------------------------------------------------
(* eml_extractor.py *)

\* Attribute values and file names are sequences of text chunks.
Attrs(src, sized) ==
  [n \in {"src", "alt"} \cup (IF sized THEN {"width", "height", "class"} ELSE {}) |->
     CASE n = "src" -> src
       [] n = "alt" -> <<"logo">>
       [] n = "width" -> <<"100">>
       [] n = "height" -> <<"50">>
       [] OTHER -> <<"hero">>]

\* The elements an HTML body is made of: images referring to an inline part,
\* to a part the message does not carry or to a web address, an image with no
\* source, an image whose width is empty (width=""), and a link.
Elements ==
  { [tag |-> "img", attrs |-> Attrs(<<"cid:", "i1">>, TRUE)],
    [tag |-> "img", attrs |-> Attrs(<<"cid:", "i2">>, FALSE)],
    [tag |-> "img", attrs |-> Attrs(<<"http://x/a.png">>, TRUE)],
    [tag |-> "img", attrs |-> [n \in {"alt"} |-> <<"logo">>]],
    [tag |-> "img", attrs |-> [n \in {"src", "width", "height", "style"} |->
                                 CASE n = "src" -> <<"cid:", "i1">>
                                   [] n = "width" -> <<>>
                                   [] n = "height" -> <<"50">>
                                   [] OTHER -> <<"border:0">>]],
    [tag |-> "a", attrs |-> [n \in {"href"} |-> <<"http://x/">>]] }

RECURSIVE SeqsUpTo(_, _)
SeqsUpTo(S, n) ==
  IF n = 0 THEN {<<>>}
  ELSE LET prev == SeqsUpTo(S, n - 1)
       IN prev \cup {Append(q, x) : q \in prev, x \in S}

HtmlBodies == SeqsUpTo(Elements, MaxElems)

\* Message parts.  payload of a text/html part: "doc" (the HTML body) or
\* "blank" (an empty string); data of an image part: its bytes, "bad" being
\* bytes the image library cannot decode.
HtmlPart == [type |-> "text/html", charset |-> "utf-8", payload |-> "doc", cid |-> ""]
BlankHtmlPart == [HtmlPart EXCEPT !.payload = "blank"]
NoCharsetHtmlPart == [HtmlPart EXCEPT !.charset = NoneV]
PlainPart == [type |-> "text/plain", charset |-> "utf-8", payload |-> "text", cid |-> ""]
ImagePart(type, cid, data) == [type |-> type, charset |-> NoneV, payload |-> data, cid |-> cid]

\* The messages: is_multipart() and the parts walk() yields (for a message
\* that is not multipart, the message itself).
Messages ==
  { [multipart |-> FALSE, parts |-> <<HtmlPart>>],
    [multipart |-> FALSE, parts |-> <<PlainPart>>],
    [multipart |-> FALSE, parts |-> <<ImagePart("image/png", "i1", "png1")>>],
    [multipart |-> FALSE, parts |-> <<BlankHtmlPart>>],
    [multipart |-> TRUE, parts |-> <<PlainPart>>],
    [multipart |-> TRUE, parts |-> <<PlainPart, ImagePart("image/png", "i1", "png1")>>],
    [multipart |-> TRUE, parts |-> <<BlankHtmlPart, ImagePart("image/png", "i1", "png1")>>],
    [multipart |-> TRUE, parts |-> <<NoCharsetHtmlPart>>],
    [multipart |-> TRUE, parts |-> <<PlainPart, HtmlPart>>],
    [multipart |-> TRUE, parts |-> <<HtmlPart, ImagePart("image/png", "i1", "png1")>>],
    [multipart |-> TRUE, parts |-> <<ImagePart("image/png", "i1", "bad"), HtmlPart,
                                     ImagePart("image/x-raw", "i2", "raw2")>>],
    [multipart |-> TRUE, parts |-> <<ImagePart("image/png", "i1", "png1"),
                                     ImagePart("image/png", "i2", "bad"), HtmlPart,
                                     ImagePart("image/png", "", "png3")>>] }

\* client.config
Config(path) ==
  [azure_cdn_storage_account_name |-> "acct", azure_cdn_storage_account_key |-> "key",
   azure_cdn_container_name |-> "cont", azure_cdn_blob_path |-> path]
Configs == {Config("cdn"), Config(EmptyStr), Config(NoneV),
            [Config("cdn") EXCEPT !.azure_cdn_container_name = NoneV]}

\* html_body_file_path: os.path.dirname, and the file name without extension.
OutPaths == {[dir |-> "out", name |-> "body"], [dir |-> "", name |-> "my body"]}

get_azure_blob_url(config, blob_name) ==
  <<"https://", config.azure_cdn_storage_account_name, ".blob.core.windows.net/",
    config.azure_cdn_container_name, "/", config.azure_cdn_blob_path, "/">> \o blob_name

\* oUpload: whether upload_blob stores the blob (OK) or raises.
upload_to_azure(bs, config, image_data, filename, oUpload) ==
  LET blob_path == IF Truthy(config.azure_cdn_blob_path)
                   THEN <<config.azure_cdn_blob_path, "/">> \o filename
                   ELSE filename
  IN IF config.azure_cdn_blob_path = NoneV \/ oUpload # OK
     THEN [ok |-> FALSE, blobs |-> bs, url |-> <<>>]
     ELSE [ok |-> TRUE, blobs |-> bs \cup {[path |-> blob_path, data |-> image_data]},
           url |-> get_azure_blob_url(config, filename)]

\* Image.open raises on bytes that are no image; otherwise the JPEG bytes.
compress_image(image_data) ==
  IF image_data = "bad" THEN NoneV ELSE "jpeg(" \o image_data \o ")"

verify_azure_config(config) ==
  \A f \in {"azure_cdn_storage_account_name", "azure_cdn_storage_account_key",
            "azure_cdn_container_name"} : Truthy(config[f])

\* re.sub(r'[^\w\s-]', '_', base), re.sub(r'[-\s]+', '_', ...), strip('_')
get_base_filename(path) == IF path.name = "my body" THEN "my_body" ELSE path.name

\* mimetypes.guess_extension(type) or '.jpg'
guess_extension(type) == IF type = "image/png" THEN ".png" ELSE ".jpg"

\* hashlib.md5(compressed_data).hexdigest()[:8]
md5_8(data) == "md5(" \o data \o ")"

\* The tag if lines 114-117 deleted nothing.
Allowed_Everything(attrs) == attrs

\* The tag with every attribute but src, alt and style deleted (lines 114-117).
Allowed(attrs) == [n \in DOMAIN attrs \cap {"src", "alt", "style"} |-> attrs[n]]

HasAttr(attrs, n) == n \in DOMAIN attrs /\ attrs[n] # <<>>

process_image(bs, img_tag, image_data, config, base_filename, index, t, oUpload) ==
  LET compressed_data == compress_image(image_data.data)
      filename == <<"mail_campaigns/", base_filename, "_", ToString(index), "_",
                    strftime(t), "_", md5_8(compressed_data),
                    guess_extension(image_data.type)>>
      up == upload_to_azure(bs, config, compressed_data, filename, oUpload)
      a1 == [n \in DOMAIN img_tag.attrs \cup {"src"} |->
               IF n = "src" THEN up.url ELSE img_tag.attrs[n]]
      a2 == IF HasAttr(a1, "width") /\ HasAttr(a1, "height")
            THEN [n \in DOMAIN a1 \cup {"style"} |->
                    IF n = "style"
                    THEN <<"width:">> \o a1["width"] \o <<"px;height:">>
                           \o a1["height"] \o <<"px">>
                    ELSE a1[n]]
            ELSE a1
  IN IF compressed_data = NoneV
     THEN [ok |-> FALSE, err |-> "CompressionError", tag |-> img_tag, blobs |-> bs,
           filename |-> <<>>]
     ELSE IF ~up.ok
     THEN [ok |-> FALSE, err |-> "StorageError", tag |-> img_tag, blobs |-> bs,
           filename |-> <<>>]
     ELSE [ok |-> TRUE, err |-> "", tag |-> [img_tag EXCEPT !.attrs = Allowed(a2)],
           blobs |-> up.blobs, filename |-> filename]

\* a['clicktracking'] = 'off' for every link
process_html_content(soup) ==
  [i \in DOMAIN soup |->
     IF soup[i].tag = "a"
     THEN [soup[i] EXCEPT !.attrs =
             [n \in DOMAIN soup[i].attrs \cup {"clicktracking"} |->
                IF n = "clicktracking" THEN <<"off">> ELSE soup[i].attrs[n]]]
     ELSE soup[i]]

\* image_data after the walk over the first n parts (lines 152-162): the last
\* image part of a Content-ID wins, a part without Content-ID is skipped.
RECURSIVE ImageData(_, _)
ImageData(parts, n) ==
  IF n = 0 THEN [c \in {} |-> NoneV]
  ELSE LET prev == ImageData(parts, n - 1)
           p == parts[n]
       IN IF p.type \notin {"text/html", "text/plain"} /\ p.cid # ""
          THEN [c \in DOMAIN prev \cup {p.cid} |->
                  IF c = p.cid THEN [data |-> p.payload, type |-> p.type] ELSE prev[c]]
          ELSE prev

\* html_content if a single-part message were decoded whatever its type.
HtmlContent_AnyType(msg) ==
  LET hs == {i \in DOMAIN msg.parts : msg.parts[i].type = "text/html"}
      last == CHOOSE i \in hs : \A j \in hs : j <= i
  IN IF ~msg.multipart THEN msg.parts[1].payload
     ELSE IF hs = {} THEN "none"
     ELSE IF \E i \in hs : msg.parts[i].charset = NoneV THEN "raise"
     ELSE msg.parts[last].payload

\* html_content after the walk: the last text/html part; "none" when there is
\* none, "raise" when its charset is missing (decode(None)).
HtmlContent(msg) ==
  LET hs == {i \in DOMAIN msg.parts : msg.parts[i].type = "text/html"}
      last == CHOOSE i \in hs : \A j \in hs : j <= i
  IN IF hs = {} THEN "none"
     ELSE IF \E i \in hs : msg.parts[i].charset = NoneV THEN "raise"
     ELSE msg.parts[last].payload

\* What one run of extract_html_from_eml leaves: error ("" or the failure
\* raised), the soup after the image loop, the filenames of processed_images,
\* the place in the HTML of the element of each, the elements whose processing
\* was tried and those where it failed, and whether the output file was
\* written.
NoEx == [done |-> FALSE, error |-> "", soup |-> <<>>, processed |-> <<>>,
         positions |-> <<>>, failed |-> {}, tried |-> {}, written |-> FALSE]
NoEml == [msg |-> [multipart |-> FALSE, parts |-> <<PlainPart>>], html |-> <<>>,
          config |-> Config("cdn"), path |-> [dir |-> "out", name |-> "body"],
          up_fails |-> {}]
NoFile == [path |-> [dir |-> "", name |-> ""], body |-> <<>>, some |-> FALSE]

\* img['src'].replace('cid:', '')
CidOf(src) ==
  LET rest == SelectSeq(src, LAMBDA x : x # "cid:")
  IN IF Len(rest) = 1 THEN rest[1] ELSE ""

\* image_count if line 189 stood outside the try.
NextCount_Always(image_count, ok) == image_count + 1

\* image_count after process_image returned (ok) or raised: line 189 is
\* inside the try, after the call.
NextCount(image_count, ok) == IF ok THEN image_count + 1 ELSE image_count

\* The loop of lines 181-192 from element i on.  st: the soup, image_count,
\* processed_images, the blob store, and the bookkeeping of NoEx.
RECURSIVE ImageLoop(_, _, _, _, _, _, _)
ImageLoop(st, i, image_data, config, base_filename, t, up_fails) ==
  IF i > Len(st.soup) THEN st
  ELSE LET img == st.soup[i]
           src == IF "src" \in DOMAIN img.attrs THEN img.attrs["src"] ELSE <<>>
           cid == CidOf(src)
           r == process_image(st.blobs, img, image_data[cid], config, base_filename,
                              st.image_count, t,
                              IF i \in up_fails THEN ERROR ELSE OK)
           next == IF img.tag = "img" /\ startswith(src, <<"cid:">>)
                      /\ cid \in DOMAIN image_data
                   THEN IF r.ok
                        THEN [st EXCEPT !.soup[i] = r.tag,
                                        !.blobs = r.blobs,
                                        !.processed = Append(@, r.filename),
                                        !.positions = Append(@, i),
                                        !.tried = @ \cup {i},
                                        !.image_count = NextCount(@, TRUE)]
                        ELSE [st EXCEPT !.failed = @ \cup {i}, !.tried = @ \cup {i},
                                        !.image_count = NextCount(@, FALSE)]
                   ELSE st
       IN ImageLoop(next, i + 1, image_data, config, base_filename, t, up_fails)

\* in: the message, the HTML body of its "doc" parts, the configuration, the
\* output path, and the elements at which upload_blob raises.
extract_html_from_eml(bs, in, t) ==
  LET html_content == HtmlContent(in.msg)
      image_data == IF in.msg.multipart THEN ImageData(in.msg.parts, Len(in.msg.parts))
                    ELSE [c \in {} |-> NoneV]
      soup == process_html_content(in.html)
      st0 == [soup |-> soup, image_count |-> 1, processed |-> <<>>, positions |-> <<>>,
              blobs |-> bs, failed |-> {}, tried |-> {}]
      st == ImageLoop(st0, 1, image_data, in.config, get_base_filename(in.path), t,
                      in.up_fails)
      Raise(e) == [blobs |-> bs, file |-> NoFile,
                   r |-> [NoEx EXCEPT !.done = TRUE, !.error = e]]
      r == [done |-> TRUE, error |-> "", soup |-> st.soup, processed |-> st.processed,
            positions |-> st.positions, failed |-> st.failed, tried |-> st.tried,
            written |-> TRUE]
  IN IF ~verify_azure_config(in.config) THEN Raise("ConfigError")
     ELSE IF html_content = "raise" THEN Raise("TypeError")
     ELSE IF html_content \in {"none", "blank"} THEN Raise("NoHTMLContent")
     ELSE IF in.path.dir = ""
       THEN [blobs |-> st.blobs, file |-> NoFile,
             r |-> [r EXCEPT !.error = "FileNotFound", !.written = FALSE]]
     ELSE [blobs |-> st.blobs, file |-> [path |-> in.path, body |-> st.soup, some |-> TRUE],
           r |-> r]

----------------------------------------------------------------------------
(* The campaign command *)

NoArgs == [campaign_id |-> NoneV, subject |-> NoneSubject, sender |-> NoneV,
           receivers_file_path |-> NoneV, html_body_file_path |-> NoneV,
           scheduled_at |-> NoneV]

NoRun == [shape |-> "none", error |-> "", fetched |-> NoneV, info |-> NoInfo,
          body |-> NoBody, sched |-> FALSE, ret_kind |-> "none",
          ret_id |-> NoneV, calls |-> <<>>]

\* A complete, valid creation request.
FullArgs == [campaign_id |-> NoneV, subject |-> <<"a">>, sender |-> "v2@x",
             receivers_file_path |-> "rcv.txt", html_body_file_path |-> "body.html",
             scheduled_at |-> "2024-03-15 14:30:00"]

\* The requests of the workflow runs: creations and updates of each subject,
\* and requests with one argument empty, unknown, unreadable or missing.
RequestArgs ==
  {NoArgs, [NoArgs EXCEPT !.campaign_id = "c1"]}
    \cup {[FullArgs EXCEPT !.campaign_id = c, !.subject = s] :
            c \in {NoneV, "c1"}, s \in Subjects}
    \cup {[FullArgs EXCEPT !.sender = s] : s \in {EmptyStr, "u@x"}}
    \cup {[FullArgs EXCEPT !.campaign_id = "c2"],
          [FullArgs EXCEPT !.campaign_id = EmptyStr],
          [FullArgs EXCEPT !.scheduled_at = "tomorrow"],
          [FullArgs EXCEPT !.html_body_file_path = EmptyStr],
          [FullArgs EXCEPT !.receivers_file_path = EmptyStr],
          [FullArgs EXCEPT !.receivers_file_path = "missing.txt"],
          [FullArgs EXCEPT !.sender = NoneV]}

\* The provider account before the first invocation: empty, or with the
\* suppression group, the contacts list and the draft campaign a former
\* invocation left.
Accounts ==
  {[campaigns |-> <<>>, lists |-> <<>>, groups |-> <<>>],
   [campaigns |-> <<NewCampaign("c1", [name |-> <<"a">>, subject |-> <<"a">>,
                                       sender_id |-> "s2",
                                       suppression_group_id |-> "g1",
                                       list_id |-> "l1"])>>,
    lists |-> <<[id |-> "l1", name |-> ListName(<<"a">>, 0), contacts |-> {"r1@x"}]>>,
    groups |-> <<"g1">>]}

Init ==
  /\ \E acc \in Accounts :
       /\ campaigns = acc.campaigns
       /\ lists = acc.lists
       /\ groups = acc.groups
  /\ now = 0
  /\ runs = 0
  /\ faults = 0
  /\ args = NoArgs
  /\ run = NoRun
  /\ eml = NoEml
  /\ blobs = {}
  /\ outfile = NoFile
  /\ ex = NoEx
  /\ rcv = NoRcv
  /\ parsed = NoParsed

\* The calls of a run under outcomes o that failed.
Failed(w, o) == {c \in w.sites : o[c] # OK}

\* The outcome assignments of one invocation in which at most n calls fail:
\* a further failure is placed on a call the run makes.
RECURSIVE OraclesWith(_, _, _, _)
OraclesWith(w0, a, t, n) ==
  IF n = 0 THEN {AllOk}
  ELSE LET prev == OraclesWith(w0, a, t, n - 1)
       IN prev \cup
          UNION {UNION {{[o EXCEPT ![c] = k] : k \in FaultKinds(c)} :
                          c \in process_campaign_request(w0, a, o, t).w.sites
                                  \ Failed(process_campaign_request(w0, a, o, t).w, o)} :
                   o \in prev}

\* One invocation of the campaign command (cli.py lines 48-55).
Request(A) ==
  /\ runs < MaxRuns
  /\ \E a \in A :
     \E o \in OraclesWith(World(campaigns, lists, groups), a, now + 1, MaxFaults - faults) :
       LET res == process_campaign_request(World(campaigns, lists, groups), a, o, now + 1)
       IN /\ faults' = faults + Cardinality(Failed(res.w, o))
          /\ campaigns' = res.w.campaigns
          /\ lists' = res.w.lists
          /\ groups' = res.w.groups
          /\ args' = a
          /\ run' = res.r
  /\ now' = now + 1
  /\ runs' = runs + 1
  /\ UNCHANGED <<extractVars, parseVars>>

\* The provider sends a scheduled campaign.
ProviderSends ==
  /\ \E i \in DOMAIN campaigns :
       /\ campaigns[i].status = "scheduled"
       /\ campaigns' = [campaigns EXCEPT ![i].status = "sent"]
  /\ UNCHANGED <<lists, groups, now, runs, faults, args, run>>
  /\ UNCHANGED <<extractVars, parseVars>>

Next == Request(RequestArgs) \/ ProviderSends

Spec == Init /\ [][Next]_vars

\* Every combination of given and missing arguments, the campaign ID also as
\* an empty string.
AllArgs ==
  {[campaign_id |-> c, subject |-> s, sender |-> e, receivers_file_path |-> r,
    html_body_file_path |-> h, scheduled_at |-> d] :
      c \in {NoneV, EmptyStr, "c1"}, s \in {NoneSubject, <<"a">>},
      e \in {NoneV, "v2@x"}, r \in {NoneV, "rcv.txt"}, h \in {NoneV, "body.html"},
      d \in {NoneV, "2024-03-15 14:30:00"}}

NextDispatch == Request(AllArgs) \/ ProviderSends

SpecDispatch == Init /\ [][NextDispatch]_vars

\* Creation requests only, on an account that holds no campaign.
CreateArgs ==
  {a \in RequestArgs : a.campaign_id = NoneV /\ required_fields \subseteq provided_args(a)}

InitCreates == Init /\ campaigns = <<>>

NextCreates == Request(CreateArgs) \/ ProviderSends

SpecCreates == InitCreates /\ [][NextCreates]_vars

----------------------------------------------------------------------------
(* The extract-html command *)

\* The configuration and output path of a run: the complete ones, and each
\* with one thing empty or missing.
Setups ==
  {<<c, [dir |-> "out", name |-> "body"]>> : c \in Configs}
    \cup {<<Config("cdn"), q>> : q \in OutPaths}

EmlInputs ==
  {[msg |-> m, html |-> h, config |-> k[1], path |-> k[2], up_fails |-> f] :
     m \in Messages, h \in HtmlBodies, k \in Setups, f \in SUBSET (1..MaxElems)}

InitExtract ==
  /\ campaigns = <<>>
  /\ lists = <<>>
  /\ groups = <<>>
  /\ now = 0
  /\ runs = 0
  /\ faults = 0
  /\ args = NoArgs
  /\ run = NoRun
  /\ eml \in {i \in EmlInputs :
               /\ HtmlContent(i.msg) # "doc" => i.html = <<>>
               /\ i.up_fails \subseteq DOMAIN i.html}
  /\ blobs = {}
  /\ outfile = NoFile
  /\ ex = NoEx
  /\ rcv = NoRcv
  /\ parsed = NoParsed

\* One invocation of the extract-html command (cli.py lines 42-46).
ExtractHtml ==
  /\ ~ex.done
  /\ LET res == extract_html_from_eml(blobs, eml, now)
     IN /\ blobs' = res.blobs
        /\ outfile' = res.file
        /\ ex' = res.r
  /\ UNCHANGED <<eml, providerVars, parseVars>>

SpecExtract == InitExtract /\ [][ExtractHtml]_vars


----------------------------------------------------------------------------
(* parse_receivers_file on its own *)

Chars == {"<", ">", "a", " "}
Lines == SeqsUpTo(Chars, MaxLineLen)
\* The receivers files: no path given, an empty file, one line, two lines.
RcvFiles ==
  {[path |-> EmptyStr, lines |-> <<>>], [path |-> "rcv.txt", lines |-> <<>>]}
    \cup {[path |-> "rcv.txt", lines |-> <<l>>] : l \in Lines}
    \cup {[path |-> "rcv.txt", lines |-> <<l, m>>] : l \in Lines, m \in Lines}

InitParse ==
  /\ campaigns = <<>>
  /\ lists = <<>>
  /\ groups = <<>>
  /\ now = 0
  /\ runs = 0
  /\ faults = 0
  /\ args = NoArgs
  /\ run = NoRun
  /\ eml = NoEml
  /\ blobs = {}
  /\ outfile = NoFile
  /\ ex = NoEx
  /\ rcv \in RcvFiles
  /\ parsed = NoParsed

\* campaign_manager.py line 40.
ParseReceivers ==
  /\ ~parsed.done
  /\ parsed' = [done |-> TRUE, receivers |-> parse_receivers_file(rcv)]
  /\ UNCHANGED <<rcv, providerVars, extractVars>>

SpecParse == InitParse /\ [][ParseReceivers]_vars

----------------------------------------------------------------------------
(* Properties *)

Range(q) == {q[i] : i \in DOMAIN q}
Called(r, endpoint) == endpoint \in Range(r.calls)
\* The step is an invocation of the campaign command.
Invoked == runs' = runs + 1
\* The subject a contacts list was created for: "List for <subject> - <ts>".
ListSubject(name) == SubSeq(name, 2, Len(name) - 2)

\* C1: whenever the update (patch) endpoint is called, the status fetched for
\* the given campaign ID just before was 'draft'.
C1_PatchOnlyAfterDraftFetch ==
  Called(run, "singlesends.patch") => run.fetched = "draft"

\* C2: a creation request (no campaign ID) whose subject equals that of a
\* remote campaign fails with a conflict error that reports that campaign's
\* ID, subject, schedule, sender and status; the create endpoint is not
\* called and the remote campaigns stay as they were.
C2_ConflictBlocksCreate ==
  [][(/\ Invoked
      /\ run'.shape = "create"
      /\ \E i \in DOMAIN campaigns : campaigns[i].subject = args'.subject)
     => /\ run'.error = "Conflict"
        /\ \E i \in DOMAIN campaigns :
             /\ campaigns[i].subject = args'.subject
             /\ run'.info.campaign_id = campaigns[i].id
             /\ run'.info.subject = campaigns[i].subject
             /\ run'.info.scheduled_at = campaigns[i].send_at
             /\ run'.info.from = SenderEmailOf(campaigns[i].sender_id)
             /\ run'.info.status = campaigns[i].status
        /\ ~Called(run', "singlesends.post")
        /\ campaigns' = campaigns]_vars

\* The outcome the dispatch contract names for the fields given.
ClaimedShape(a) ==
  LET id == a.campaign_id # NoneV
      five == {a.sender # NoneV, a.receivers_file_path # NoneV,
               a.html_body_file_path # NoneV, a.scheduled_at # NoneV,
               a.subject # NoneSubject}
  IN IF ~id /\ five = {FALSE} THEN "list"
     ELSE IF id /\ five = {FALSE} THEN "fetch"
     ELSE IF ~id /\ five = {TRUE} THEN "create"
     ELSE IF id /\ five = {TRUE} THEN "update"
     ELSE "usage"

\* C3: every combination of given fields has the outcome the dispatch
\* contract names for it (list, fetch, create, update, usage error), and a
\* usage error makes no provider call.
C3_DispatchClassification ==
  runs > 0 => /\ run.shape = ClaimedShape(args)
              /\ run.shape = "usage" => run.error = "Usage" /\ run.calls = <<>>

\* C4: when a contacts list for the subject exists remotely, a run that
\* reaches create_contacts_list reuses an existing list with the name's
\* prefix and does not call the list-create endpoint, so the number of lists
\* does not grow.
C4_ListReusedByPrefix ==
  [][(/\ Invoked
      /\ Called(run', "lists.get")
      /\ \E i \in DOMAIN lists : ListSubject(lists[i].name) = args'.subject)
     => /\ ~Called(run', "lists.post")
        /\ Len(lists') = Len(lists)
        /\ run'.body # NoBody =>
             \E i \in DOMAIN lists :
               /\ lists[i].id = run'.body.list_id
               /\ startswith(lists[i].name, <<"List for ">> \o args'.subject)]_vars

\* C5: when the schedule call fails after the campaign was created or
\* patched, the run does not fail and returns the campaign ID; no campaign is
\* removed, the others are untouched, and the campaign is left as written and
\* unscheduled (a created one a draft with no send time, a patched one with
\* the status and send time it had).
C5_ScheduleFailureIsNotFatal ==
  [][(Invoked /\ Called(run', "schedule.put") /\ ~run'.sched)
     => /\ run'.error = ""
        /\ run'.ret_kind = "id"
        /\ Len(campaigns') >= Len(campaigns)
        /\ \E i \in DOMAIN campaigns' :
             /\ campaigns'[i].id = run'.ret_id
             /\ \A j \in DOMAIN campaigns : j # i => campaigns'[j] = campaigns[j]
             /\ run'.shape = "create" =>
                  /\ i = Len(campaigns) + 1
                  /\ campaigns'[i] = NewCampaign(run'.ret_id, run'.body)
             /\ run'.shape = "update" =>
                  /\ run'.ret_id = args'.campaign_id
                  /\ campaigns'[i].status = campaigns[i].status
                  /\ campaigns'[i].send_at = campaigns[i].send_at
                  /\ campaigns'[i] \in {campaigns[i], Patched(campaigns, run'.ret_id, run'.body)[i]}]_vars

\* C5 witness: an update whose schedule call failed returned the campaign ID.
C5_Witness ==
  /\ run.shape = "update"
  /\ Called(run, "schedule.put") /\ ~run.sched
  /\ run.ret_kind = "id"
  /\ \E i \in DOMAIN campaigns : campaigns[i].id = run.ret_id /\ campaigns[i].name = args.subject

\* C6: a campaign is created or patched only with the ID of a verified
\* sender whose email equals the sender email given.
C6_SenderIsVerified ==
  run.body # NoBody =>
    \E i \in DOMAIN Senders :
      Senders[i].id = run.body.sender_id /\ Senders[i].email = args.sender

\* C7: the group-create endpoint is called only when no suppression group
\* exists remotely.
C7_GroupCreatedOnlyIfNone ==
  [][(Invoked /\ Called(run', "asm.groups.post")) => groups = <<>>]_vars

NoHtmlPart(msg) == \A i \in DOMAIN msg.parts : msg.parts[i].type # "text/html"

\* The image elements the loop hands to process_image.
Known(in, i) ==
  /\ in.html[i].tag = "img"
  /\ "src" \in DOMAIN in.html[i].attrs
  /\ Head(in.html[i].attrs["src"]) = "cid:"
  /\ \E j \in DOMAIN in.msg.parts :
       in.msg.parts[j].cid # "" /\ <<"cid:", in.msg.parts[j].cid>> = in.html[i].attrs["src"]

\* C8: when compression or upload fails for an image, the element is left
\* exactly as it was, every image after it is still processed, and the
\* output file is still written.
C8_ImageFailureIsIsolated ==
  (ex.done /\ ex.failed # {}) =>
    /\ \A i \in ex.failed : ex.soup[i] = eml.html[i]
    /\ \A i \in DOMAIN eml.html : Known(eml, i) => i \in ex.tried
    /\ ex.written
    /\ outfile.some /\ outfile.body = ex.soup

\* C9: a message with no text/html part, single-part or multi-part, makes the
\* run fail (with NoHTMLContent once the configuration is accepted); no image
\* is uploaded and no output file is written.
C9_NoHtmlIsFatal ==
  (ex.done /\ NoHtmlPart(eml.msg)) =>
    /\ ex.error # ""
    /\ verify_azure_config(eml.config) => ex.error = "NoHTMLContent"
    /\ blobs = {}
    /\ ~ex.written /\ ~outfile.some

\* C9 witness: a multi-part message with an image part and no HTML part failed.
C9_Witness ==
  /\ ex.done /\ NoHtmlPart(eml.msg) /\ eml.msg.multipart
  /\ \E i \in DOMAIN eml.msg.parts : eml.msg.parts[i].cid = "i1"
  /\ ex.error = "NoHTMLContent"

\* The blob path an uploaded file name is stored under.
BlobNames == {SubSeq(b.path, Len(b.path) - 8, Len(b.path)) : b \in blobs}

\* C10: the processed images are images referenced by cid: and present among
\* the image parts, taken in HTML order; the j-th of them carries sequence
\* index j in its file name, and the uploaded files are exactly these, so
\* their indices are 1..k with no gap and no repeat.
C10_IndicesAreDense ==
  ex.done =>
    /\ Len(ex.positions) = Len(ex.processed)
    /\ \A j \in DOMAIN ex.processed :
         /\ ex.processed[j][4] = ToString(j)
         /\ Known(eml, ex.positions[j])
         /\ \A k \in DOMAIN ex.processed : j < k => ex.positions[j] < ex.positions[k]
    /\ BlobNames = Range(ex.processed)
    /\ \A i \in DOMAIN eml.html : ~Known(eml, i) => i \notin ex.tried

\* C10 witness: an image was uploaded with index 1 after an earlier image
\* failed.
C10_Witness ==
  /\ ex.done /\ Len(ex.processed) = 1
  /\ \E i \in ex.failed : i < ex.positions[1]

\* The element at place i was rewritten by process_image.
Rewritten(i) == \E j \in DOMAIN ex.positions : ex.positions[j] = i

\* The URL process_image got for the image at place i.
UrlOf(i) ==
  LET j == CHOOSE k \in DOMAIN ex.positions : ex.positions[k] = i
  IN get_azure_blob_url(eml.config, ex.processed[j])

PixelStyle(b) == <<"width:">> \o b["width"] \o <<"px;height:">> \o b["height"] \o <<"px">>

\* What sanitization leaves of the image at place i, the style being
\* collapsed when sized(b) holds of the original attributes b.
Sanitized(i, sized(_)) ==
  LET b == eml.html[i].attrs
      a == ex.soup[i].attrs
  IN IF Rewritten(i)
     THEN /\ ex.soup[i].tag = "img"
          /\ DOMAIN a \subseteq {"src", "alt", "style"}
          /\ a["src"] = UrlOf(i)
          /\ "alt" \in DOMAIN b => "alt" \in DOMAIN a /\ a["alt"] = b["alt"]
          /\ sized(b) => "style" \in DOMAIN a /\ a["style"] = PixelStyle(b)
          /\ (~sized(b) /\ "style" \in DOMAIN b) =>
               "style" \in DOMAIN a /\ a["style"] = b["style"]
     ELSE ex.soup[i] = eml.html[i]

BothPresent(b) == "width" \in DOMAIN b /\ "height" \in DOMAIN b
BothGiven(b) == HasAttr(b, "width") /\ HasAttr(b, "height")

\* The run got as far as the image loop.
Looped == ex.done /\ ex.error \in {"", "FileNotFound"}

\* C11 as stated: after sanitization every image that was uploaded has the
\* destination URL as source, no attribute but src, alt and style, and a
\* pixel style whenever width and height were both present; every other
\* image is unmodified.
C11_SanitizedWhenPresent ==
  Looped => \A i \in DOMAIN eml.html :
              eml.html[i].tag = "img" => Sanitized(i, BothPresent)

\* C11 amended: the same, the pixel style being required whenever width and
\* height were both present with a non-empty value.
C11_SanitizedWhenGiven ==
  Looped => \A i \in DOMAIN eml.html :
              eml.html[i].tag = "img" => Sanitized(i, BothGiven)

\* C11 witness: an image with width and height was rewritten and an image
\* referring to a content-id the message does not carry was passed over.
C11_Witness ==
  /\ Looped
  /\ \E i \in DOMAIN eml.html : Rewritten(i) /\ BothGiven(eml.html[i].attrs)
  /\ \E i \in DOMAIN eml.html :
       /\ eml.html[i].tag = "img" /\ "src" \in DOMAIN eml.html[i].attrs
       /\ Head(eml.html[i].attrs["src"]) = "cid:"
       /\ ~Known(eml, i)

\* The lines with both brackets, in file order.
Accepted(lines) == SelectSeq(lines, LAMBDA l : Contains(l, "<") /\ Contains(l, ">"))

FirstAt(l, c, from) == CHOOSE k \in from..Len(l) : l[k] = c /\ \A j \in from..(k - 1) : l[j] # c

\* A '>' follows the first '<' of the line.
Closed(l) == \E k \in (FirstAt(l, "<", 1) + 1)..Len(l) : l[k] = ">"

\* The text strictly between the first '<' and the first '>' after it.
Between(l) ==
  LET p == FirstAt(l, "<", 1)
  IN SubSeq(l, p + 1, FirstAt(l, ">", p + 1) - 1)

\* The text after the first '<' up to the next bracket of either kind or the
\* end of the line.
UpToNextBracket(l) ==
  LET p == FirstAt(l, "<", 1)
      stops == {k \in (p + 1)..Len(l) : l[k] \in {"<", ">"}} \cup {Len(l) + 1}
  IN SubSeq(l, p + 1, (CHOOSE k \in stops : \A j \in stops : k <= j) - 1)

\* s without the blanks before its first and after its last other character.
Trimmed(s) ==
  LET inked == {k \in DOMAIN s : s[k] # " "}
  IN IF inked = {} THEN <<>>
     ELSE SubSeq(s, CHOOSE k \in inked : \A j \in inked : k <= j,
                    CHOOSE k \in inked : \A j \in inked : j <= k)

\* C12 as stated: parse_receivers_file returns one address for each line
\* holding both '<' and '>', in file order, and the address of a line is
\* exactly the text strictly between its first '<' and the first '>' after it.
C12_AddressBetweenBrackets ==
  (parsed.done /\ Truthy(rcv.path)) =>
    LET acc == Accepted(rcv.lines)
    IN /\ Len(parsed.receivers) = Len(acc)
       /\ \A k \in DOMAIN acc : Closed(acc[k]) => parsed.receivers[k] = Between(acc[k])

\* C12 amended: parse_receivers_file returns one address for each line
\* holding both '<' and '>', in file order; the address of a line is the text
\* after its first '<' up to the next '<' or '>' or the end of the line, with
\* the blanks around it removed.  Other lines contribute nothing.
C12_AddressUpToNextBracket ==
  parsed.done =>
    LET acc == IF Truthy(rcv.path) THEN Accepted(rcv.lines) ELSE <<>>
    IN /\ Len(parsed.receivers) = Len(acc)
       /\ \A k \in DOMAIN acc : parsed.receivers[k] = Trimmed(UpToNextBracket(acc[k]))

\* C12 witness: of two lines the first lacks a bracket and is dropped, the
\* second gives the address between its brackets.
C12_Witness ==
  /\ parsed.done /\ Len(rcv.lines) = 2
  /\ ~Contains(rcv.lines[1], ">") /\ Contains(rcv.lines[1], "<")
  /\ rcv.lines[2] = <<"<", "a", ">">>
  /\ parsed.receivers = << <<"a">> >>

\* The places of the lists whose name begins with the prefix requested for
\* subject s, the provider keeping the lists in the order of their creation.
Matching(ls, s) == {i \in DOMAIN ls : startswith(ls[i].name, <<"List for ">> \o s)}

\* C13: a run that reuses a contacts list reuses the most recent of the
\* lists whose name begins with the requested prefix.
C13_MostRecentReused ==
  [][(/\ Invoked
      /\ Called(run', "lists.get") /\ ~Called(run', "lists.post")
      /\ run'.body # NoBody)
     => LET m == Matching(lists, args'.subject)
        IN /\ m # {}
           /\ run'.body.list_id = lists[CHOOSE i \in m : \A k \in m : k <= i].id]_vars

\* The run created or updated a campaign and raised nothing.
Succeeded(r) == r.shape \in {"create", "update"} /\ r.error = ""

\* C14 as stated: a successful create or update run returns the final
\* campaign details as its result.
C14_DetailsReturned ==
  Succeeded(run) => run.ret_kind = "details"

\* C14 amended: a successful create or update run ends by fetching the final
\* campaign details right after the schedule call, followed by the senders
\* and the stats; it shows them (they are those of the campaign as it is
\* remotely after the run, or nothing when the fetch failed) and returns the
\* campaign ID, not the details.
C14_DetailsShownIdReturned ==
  [][(Invoked /\ Succeeded(run'))
     => /\ run'.ret_kind = "id"
        /\ \E k \in DOMAIN run'.calls :
             /\ run'.calls[k] = "schedule.put"
             /\ SubSeq(run'.calls, k + 1, Len(run'.calls))
                  \in {<<"singlesends.get_one">>,
                       <<"singlesends.get_one", "senders.get">>,
                       <<"singlesends.get_one", "senders.get", "stats.get">>}
        /\ run'.info.some =>
             /\ run'.calls[Len(run'.calls)] = "stats.get"
             /\ run'.info.campaign_id = run'.ret_id
             /\ \E i \in DOMAIN campaigns' :
                  /\ campaigns'[i].id = run'.ret_id
                  /\ run'.info.subject = campaigns'[i].name
                  /\ run'.info.status = campaigns'[i].status
                  /\ run'.info.scheduled_at = campaigns'[i].send_at
                  /\ run'.info.send_to = campaigns'[i].list_id]_vars

\* C14 witness: a creation succeeded, showed the details of the scheduled
\* campaign and returned its ID.
C14_Witness ==
  /\ Succeeded(run) /\ run.shape = "create"
  /\ run.info.some /\ run.info.status = "scheduled"
  /\ run.ret_kind = "id" /\ run.info.campaign_id = run.ret_id

\* C15: after creation requests only, on an account that held no campaign,
\* and whatever the provider's reads answered, no two remote campaigns have
\* the same subject.
C15_NoDuplicateSubjects ==
  \A i, k \in DOMAIN campaigns :
    i # k => campaigns[i].subject # campaigns[k].subject

\* The run obtained a contacts list, upserted the recipients into it and
\* built the campaign body that names it.
Attached(r) == Called(r, "contacts.put") /\ r.body # NoBody

WriteEndpoints == {"asm.groups.post", "lists.post", "contacts.put",
                   "singlesends.post", "singlesends.patch", "schedule.put"}

\* The run failed the draft-status check, the subject-conflict check, the
\* sender resolution (its call being the last one made) or the parsing of the
\* schedule time.
FailedValidation(r) ==
  \/ r.error \in {"InvalidState", "Conflict", "SenderNotFound", "BadScheduleTime"}
  \/ /\ r.error \in {"EmptyResponse", "ProviderError"}
     /\ r.calls # <<>> /\ r.calls[Len(r.calls)] = "senders.get"

\* C17: a run that fails the draft-status check, the subject-conflict check,
\* the sender resolution or the schedule-time parsing has issued no
\* state-changing provider call, and the campaigns, lists and groups of the
\* provider are as they were before it.
C17_ValidationBeforeWrites ==
  [][(Invoked /\ FailedValidation(run'))
     => /\ Range(run'.calls) \cap WriteEndpoints = {}
        /\ campaigns' = campaigns /\ lists' = lists /\ groups' = groups]_vars

\* C17 witness: on an account that holds a campaign, a run resolved its
\* sender and then failed on the schedule time.
C17_Witness ==
  /\ run.error = "BadScheduleTime"
  /\ Called(run, "senders.get")
  /\ campaigns # <<>>

\* The URL of the configured container, up to the blob path.
ContainerUrl(config) ==
  <<"https://", config.azure_cdn_storage_account_name, ".blob.core.windows.net/",
    config.azure_cdn_container_name, "/">>

\* C18: for every image uploaded and rewritten, under every accepted
\* configuration of the blob path, the URL written into src is the URL of the
\* configured container followed by the path of the blob the image's bytes
\* were uploaded to.
C18_UrlAddressesBlob ==
  Looped =>
    \A i \in DOMAIN ex.soup :
      Rewritten(i) =>
        \E b \in blobs :
          /\ ex.soup[i].attrs["src"] = ContainerUrl(eml.config) \o b.path
          /\ \E j \in DOMAIN ex.positions :
               /\ ex.positions[j] = i
               /\ LET f == ex.processed[j]
                  IN /\ Len(f) <= Len(b.path)
                     /\ SubSeq(b.path, Len(b.path) - Len(f) + 1, Len(b.path)) = f

====
